---- MODULE Spec2Model ----
(***************************************************************************)
(* A model of convert-comics_v3.py: the batch conversion of .cbz/.cbr      *)
(* archives by a thread pool (process_files), the per-file pipeline        *)
(* (process_file, convert_to_cbz, safe_extract) and the shared Counter.    *)
(*                                                                         *)
(* Paths are sequences of components; a component is a sequence of string  *)
(* pieces (<<"1", ".cbz", "_temp">> is the name "1.cbz_temp"), so that      *)
(* str(dest_file) + "_temp" and stem + ".cbz" are computed, not looked up. *)
(* The archive codecs (zipfile, rarfile), shutil and pathlib are libraries: *)
(* they are modelled by their documented behaviour.                        *)
(***************************************************************************)
EXTENDS Integers, Sequences, FiniteSets, TLC

\* ------------------------------------------------------------- bounds
NumTasks == 2      \* planned files in the batch
MaxWorkers == 2    \* max_workers of the pool
MaxEntries == 2    \* entries of one source archive
NumThreads == 2    \* threads calling Counter.increment (CounterSpec)
MaxCalls == 2      \* calls of increment per thread (CounterSpec)

Tasks == 1..NumTasks
Threads == 1..NumThreads

\* ------------------------------------------------- the planned file set
StemNames == <<"1", "2", "3", "4">>
Stems == {StemNames[i] : i \in 1..NumTasks}
Exts == {".cbz", ".cbr"}
Payloads == {"zip", "rar", "junk"}

\* Stored entry names: pages, a name with a `..` component, an absolute name.
PageNames == <<"p1", "p2", "p3", "p4">>
Page(i) == [abs |-> FALSE, parts |-> <<(<<PageNames[i]>>)>>]
DotDot == [abs |-> FALSE, parts |-> <<(<<"..">>), (<<"evil">>)>>]
AbsName == [abs |-> TRUE, parts |-> <<(<<"etc">>), (<<"evil">>)>>]
\* Names with characters outside ASCII: a UTF-8 name that was read as cp437,
\* an accented name read as it was stored, a name that cp437 cannot encode.
Mojibake == [abs |-> FALSE, parts |-> <<(<<"U+251C", "U+2310">>)>>]
Accented == [abs |-> FALSE, parts |-> <<(<<"U+00E9">>)>>]
Cjk == [abs |-> FALSE, parts |-> <<(<<"U+65E5">>)>>]

\* The entries of an archive: pages, the last entry any of the names.
Contents ==
    {[i \in 1..n |-> IF i < n THEN Page(i) ELSE last] :
        n \in 1..MaxEntries, last \in {DotDot, AbsName}}
    \cup {[i \in 1..n |-> Page(i)] : n \in 1..MaxEntries}

\* A source file: its name (stem, extension) and its bytes (the container
\* the bytes really are, and the entries stored in it).
Sources ==
    {s \in [stem : Stems, ext : Exts, payload : Payloads,
            entries : Contents \cup {<<>>}] :
        (s.payload = "junk") <=> (s.entries = <<>>)}

Bytes(s) == [payload |-> s.payload, entries |-> s.entries]

\* ------------------------------------------------------ process_files: paths
OutRoot == <<"out">>
FailedDir == <<OutRoot, <<"_failed">>>>
RelPath(s) == <<s.stem, s.ext>>
dest_file(s) == <<OutRoot, <<s.stem, ".cbz">>>>
failed_path(s) == Append(FailedDir, RelPath(s))
temp_dir(dest) == [dest EXCEPT ![Len(dest)] = Append(@, "_temp")]

DestFiles == {dest_file(s) : s \in Sources}
TempDirs == {temp_dir(d) : d \in DestFiles}
FailedPaths == {failed_path(s) : s \in Sources}

\* ------------------------------------------------------------ safe_extract
IsPrefix(p, s) == Len(p) <= Len(s) /\ SubSeq(s, 1, Len(p)) = p

\* pathlib: temp_dir / filename (an absolute right operand replaces the left).
JoinPath(dir, name) == IF name.abs THEN name.parts ELSE dir \o name.parts

\* str(target.absolute()).startswith(str(temp_dir.absolute())): absolute()
\* does not collapse `..`, so the test is a prefix test on the joined path.
WithinTemp(dir, name) == IsPrefix(dir, JoinPath(dir, name))

\* The path with its `..` components collapsed (os.path.normpath).
RECURSIVE Collapse(_, _)
Collapse(done, rest) ==
    IF rest = <<>> THEN done
    ELSE IF Head(rest) = <<"..">>
         THEN Collapse(IF done = <<>> THEN done ELSE SubSeq(done, 1, Len(done) - 1),
                       Tail(rest))
         ELSE Collapse(Append(done, Head(rest)), Tail(rest))
Resolved(dir, name) == Collapse(<<>>, JoinPath(dir, name))

\* archive.extract(info, temp_dir): the library writes the member under
\* temp_dir with the absolute prefix and every `..` component dropped.
LibraryTarget(name) == SelectSeq(name.parts, LAMBDA c : c # <<"..">>)

\* Lines 127-135. A name is a sequence of components and a component a
\* sequence of characters; the ASCII runs ("p1", "evil") stand for themselves
\* and are their own bytes. U+00E9 is e-acute; U+251C and U+2310 are the two
\* characters that the UTF-8 bytes of e-acute (C3 A9) show as in cp437;
\* U+65E5 is a character that cp437 does not have.
HighBytes == {"0xC3", "0xA9", "0x82"}
Cp437Encodable(ch) == ch # "U+65E5"
Cp437Encode(ch) == CASE ch = "U+251C" -> "0xC3"
                     [] ch = "U+2310" -> "0xA9"
                     [] ch = "U+00E9" -> "0x82"
                     [] OTHER -> ch
Cp437Decode(b) == CASE b = "0xC3" -> "U+251C"
                    [] b = "0xA9" -> "U+2310"
                    [] b = "0x82" -> "U+00E9"
                    [] OTHER -> b

\* bytes.decode('utf-8'): ASCII bytes as they are, C3 A9 as U+00E9; a
\* continuation byte without its lead byte, or a lead byte alone, is an error.
RECURSIVE Utf8Decode(_)
Utf8Decode(bytes) ==
    IF bytes = <<>> THEN [ok |-> TRUE, text |-> <<>>]
    ELSE IF Head(bytes) \notin HighBytes
         THEN LET r == Utf8Decode(Tail(bytes))
              IN  [ok |-> r.ok, text |-> <<Head(bytes)>> \o r.text]
    ELSE IF Len(bytes) >= 2 /\ bytes[1] = "0xC3" /\ bytes[2] = "0xA9"
         THEN LET r == Utf8Decode(SubSeq(bytes, 3, Len(bytes)))
              IN  [ok |-> r.ok, text |-> <<"U+00E9">> \o r.text]
    ELSE [ok |-> FALSE, text |-> <<>>]

\* The name safe_extract goes on with: the stored name encoded as cp437 and
\* decoded as UTF-8; the stored name when it cannot be encoded; the cp437
\* round trip of the stored name when the bytes are no UTF-8.
filename(name) ==
    LET chars == UNION {{name.parts[i][j] : j \in DOMAIN name.parts[i]} :
                           i \in DOMAIN name.parts}
        encoded(c) == [j \in DOMAIN c |-> Cp437Encode(c[j])]
        utf8(c) == Utf8Decode(encoded(c))
    IN  IF \E ch \in chars : ~Cp437Encodable(ch) THEN name
        ELSE IF \A i \in DOMAIN name.parts : utf8(name.parts[i]).ok
             THEN [name EXCEPT !.parts = [i \in DOMAIN name.parts |->
                                             utf8(name.parts[i]).text]]
        ELSE [name EXCEPT !.parts = [i \in DOMAIN name.parts |->
                 [j \in DOMAIN name.parts[i] |->
                     Cp437Decode(Cp437Encode(name.parts[i][j]))]]]

WriteFile(files, path, data) ==
    {f \in files : f.path # path} \cup {[path |-> path, data |-> data]}

\* The loop of safe_extract over infolist() into the directory state d
\* ([exists, files]): entry i of task t; an I/O error at entry faultAt (0:
\* none). What was written before an error stays. io: the I/O error was hit.
ExtractLoopMut(t, dir, names, i, faultAt, d) ==
    [ok |-> TRUE, io |-> faultAt # 0, d |-> [d EXCEPT !.exists = TRUE]]
RECURSIVE ExtractLoop(_, _, _, _, _, _)
ExtractLoop(t, dir, names, i, faultAt, d) ==
    IF i > Len(names) THEN [ok |-> TRUE, io |-> FALSE, d |-> d]
    ELSE IF ~WithinTemp(dir, filename(names[i])) THEN [ok |-> FALSE, io |-> FALSE, d |-> d]
    ELSE IF i = faultAt
         THEN [ok |-> FALSE, io |-> TRUE, d |-> [d EXCEPT !.exists = TRUE]]
    ELSE ExtractLoop(t, dir, names, i + 1, faultAt,
                     [exists |-> TRUE,
                      files |-> WriteFile(d.files, LibraryTarget(names[i]), <<t, i>>)])
safe_extract(t, dir, names, faultAt, d) == ExtractLoop(t, dir, names, 1, faultAt, d)

\* ------------------------------------------------------------- validators
is_valid_zip(s) == s.payload = "zip"
is_valid_rar(s) == s.payload = "rar"

\* ---------------------------------------------------------------- Counter
Kinds == {"processed", "converted", "failed"}
Zero == [k \in Kinds |-> 0]
\* The body of Counter.increment, run under the lock.
increment(c, k) == IF k \in Kinds THEN [c EXCEPT ![k] = @ + 1] ELSE c

\* ------------------------------------------------------------------ state
VARIABLES
    src,         \* task -> the source file it was planned for
    pc,          \* task -> where its execution stands
    ret,         \* task -> what its future holds: "none", "true", "false", "exc"
    hist,        \* task -> what happened in it so far (history)
    tally,       \* task -> the increments it made, by kind (history)
    runs,        \* task -> how many times the pool started it (history)
    listing,     \* task -> the files its repack enumerated
    counter,     \* the shared Counter
    scratch,     \* temp directory path -> [exists, files]
    dest,        \* destination path -> [exists, files, writer, complete]
    quarantine,  \* quarantine path -> [exists, bytes]
    mainpc,      \* process_files: "collect", "returned" or "crashed"
    collected,   \* futures the result loop has taken
    summary,     \* the counters as the summary read them
    lock,        \* Counter.lock: its holder, 0 when free
    tpc,         \* thread -> its position in increment
    tkind,       \* thread -> the counter_type of its call
    treg,        \* thread -> the value it loaded
    tleft,       \* thread -> calls it may still make
    calls,       \* kind -> completed calls of increment (history)
    input_dir,   \* what the input root is: "dir", "file" or "missing"
    tree,        \* the entries under the input root
    unvisited,   \* the entries rglob has yet to yield
    files_to_process,  \* the planned (source, destination, quarantine) triples
    made_dirs,   \* the output directories planning has created
    planpc       \* planning: "walk", "submitted" or "returned"

taskVars == <<src, pc, ret, hist, tally, runs, listing, scratch, dest, quarantine>>
mainVars == <<mainpc, collected, summary>>
lockVars == <<lock, tpc, tkind, treg, tleft, calls>>
planVars == <<input_dir, tree, unvisited, files_to_process, made_dirs, planpc>>
vars == <<taskVars, mainVars, lockVars, planVars, counter>>

NoDir == [exists |-> FALSE, files |-> {}]
NoArchive == [exists |-> FALSE, files |-> {}, writer |-> 0, complete |-> FALSE]
NoCopy == [exists |-> FALSE, bytes |-> [payload |-> "none", entries |-> <<>>]]
NoSummary == [k \in Kinds |-> -1]

DestOf(t) == dest_file(src[t])
TempOf(t) == temp_dir(DestOf(t))
FailedOf(t) == failed_path(src[t])

\* The files of a planned batch are distinct files of the input tree. Stems
\* are numbered in order of first use, which leaves out only renamings.
Planned(f) ==
    /\ \A t \in Tasks : f[t].stem \in {StemNames[i] : i \in 1..t}
    /\ \A t, u \in Tasks : t # u => RelPath(f[t]) # RelPath(f[u])

\* Planning is over: the batch was planned and submitted.
PlanOver ==
    /\ input_dir = "dir"
    /\ tree = {}
    /\ unvisited = {}
    /\ files_to_process = <<>>
    /\ made_dirs = {}
    /\ planpc = "submitted"

LockInit ==
    /\ lock = 0
    /\ tpc = [w \in Threads |-> "idle"]
    /\ tkind = [w \in Threads |-> "processed"]
    /\ treg = [w \in Threads |-> 0]
    /\ calls = [k \in Kinds \cup {"other"} |-> 0]

Init ==
    /\ src \in [Tasks -> Sources]
    /\ Planned(src)
    /\ pc = [t \in Tasks |-> "queued"]
    /\ ret = [t \in Tasks |-> "none"]
    /\ hist = [t \in Tasks |-> {}]
    /\ tally = [t \in Tasks |-> Zero]
    /\ runs = [t \in Tasks |-> 0]
    /\ listing = [t \in Tasks |-> {}]
    /\ counter = Zero
    /\ scratch = [d \in TempDirs |-> NoDir]
    /\ dest = [d \in DestFiles |-> NoArchive]
    /\ quarantine = [p \in FailedPaths |-> NoCopy]
    /\ mainpc = "collect"
    /\ collected = {}
    /\ summary = NoSummary
    /\ LockInit
    /\ tleft = [w \in Threads |-> 0]
    /\ PlanOver

\* ----------------------------------------------------------- task helpers
Count(t, k) ==
    /\ counter' = increment(counter, k)
    /\ tally' = [tally EXCEPT ![t] = increment(@, k)]

Note(t, events) == hist' = [hist EXCEPT ![t] = @ \cup events]
Goto(t, where) == pc' = [pc EXCEPT ![t] = where]
Return(t, value) == ret' = [ret EXCEPT ![t] = value]

\* shutil.copy2(src_file, failed_path) after failed_path.parent.mkdir.
\* copy2 reads the source and leaves it as it is.
CopiedMut(t) ==
    /\ quarantine' = [quarantine EXCEPT ![FailedOf(t)] =
                         [exists |-> TRUE, bytes |-> Bytes(src[t])]]
    /\ src' = [src EXCEPT ![t].payload = "junk", ![t].entries = <<>>]
Copied(t) ==
    /\ quarantine' = [quarantine EXCEPT ![FailedOf(t)] =
                         [exists |-> TRUE, bytes |-> Bytes(src[t])]]
    /\ src' = src
\* if temp_dir.exists(): shutil.rmtree(temp_dir)
Removed(t) == scratch' = [scratch EXCEPT ![TempOf(t)] = NoDir]

Running == {t \in Tasks : pc[t] \notin {"queued", "done"}}

\* ------------------------------------------------------------ process_file
\* The formats process_file probes, in order, for a source.
ProbesMut(s) == IF s.ext = ".cbz" THEN <<"zip">> ELSE <<"rar">>
Probes(s) ==
    IF s.ext = ".cbz" THEN <<"zip">>
    ELSE IF is_valid_rar(s) THEN <<"rar">> ELSE <<"rar", "zip">>

Probe(s, fmt) == IF fmt = "zip" THEN is_valid_zip(s) ELSE is_valid_rar(s)

\* process_file goes on to convert_to_cbz: the last probe it made succeeded.
Validated(s) == Probe(s, Probes(s)[Len(Probes(s))])

ProbeEvents(s) ==
    {IF Probes(s)[i] = "zip" THEN "probe_zip" ELSE "probe_rar" : i \in 1..Len(Probes(s))}

\* The pool hands the task to a free worker (FIFO); process_file begins and
\* counts it processed.
Start(t) ==
    /\ pc[t] = "queued"
    /\ Cardinality(Running) < MaxWorkers
    /\ \A u \in Tasks : u < t => pc[u] # "queued"
    /\ runs' = [runs EXCEPT ![t] = @ + 1]
    /\ Count(t, "processed")
    /\ Goto(t, "validate")
    /\ UNCHANGED <<src, ret, hist, listing, scratch, dest, quarantine>>
    /\ UNCHANGED <<mainVars, lockVars, planVars>>

Validate(t) ==
    /\ pc[t] = "validate"
    /\ Note(t, ProbeEvents(src[t]))
    /\ Goto(t, IF Validated(src[t]) THEN "mkdir" ELSE "pf_quarantine")
    /\ UNCHANGED <<src, ret, tally, runs, listing, scratch, dest, quarantine>>
    /\ UNCHANGED <<mainVars, lockVars, planVars, counter>>

\* Lines 233-236 and 240-243: copy to quarantine, count failed, return False.
PfQuarantine(t) ==
    /\ pc[t] = "pf_quarantine"
    /\ Copied(t)
    /\ Count(t, "failed")
    /\ Return(t, "false")
    /\ Note(t, {"q_validation"})
    /\ Goto(t, "done")
    /\ UNCHANGED <<runs, listing, scratch, dest>>
    /\ UNCHANGED <<mainVars, lockVars, planVars>>

\* The copy raises (an unwritable quarantine path, a full disk): nothing
\* in process_file catches it.
PfQuarantineRaises(t) ==
    /\ pc[t] = "pf_quarantine"
    /\ Return(t, "exc")
    /\ Note(t, {"q_validation", "io_copy"})
    /\ Goto(t, "done")
    /\ UNCHANGED <<src, tally, runs, listing, scratch, dest, quarantine>>
    /\ UNCHANGED <<mainVars, lockVars, planVars, counter>>

\* ---------------------------------------------------------- convert_to_cbz
\* temp_dir.mkdir(parents=True, exist_ok=True)
Mkdir(t) ==
    /\ pc[t] = "mkdir"
    /\ scratch' = [scratch EXCEPT ![TempOf(t)].exists = TRUE]
    /\ Goto(t, "extract")
    /\ UNCHANGED <<src, ret, hist, tally, runs, listing, dest, quarantine>>
    /\ UNCHANGED <<mainVars, lockVars, planVars, counter>>

\* The format of the first extraction attempt, by the suffix.
Declared(s) == IF s.ext = ".cbr" THEN "rar" ELSE "zip"

\* Opening the source under fmt and running safe_extract on it: opening
\* raises when the bytes are not that container.
Attempt(t, fmt, faultAt) ==
    IF src[t].payload # fmt
    THEN [ok |-> FALSE, io |-> FALSE, d |-> scratch[TempOf(t)]]
    ELSE safe_extract(t, TempOf(t), src[t].entries, faultAt, scratch[TempOf(t)])

\* Where an extraction error of the first attempt leads.
AfterExtractErrorMut(s) == "fallback"
AfterExtractError(s) == IF s.ext = ".cbr" THEN "fallback" ELSE "q_inner"

Extract(t) ==
    /\ pc[t] = "extract"
    /\ \E faultAt \in 0..Len(src[t].entries) :
        LET r == Attempt(t, Declared(src[t]), faultAt) IN
        /\ faultAt # 0 => r.io
        /\ scratch' = [scratch EXCEPT ![TempOf(t)] = r.d]
        /\ Note(t, (IF r.ok THEN {"x1_ok"} ELSE {"x1_fail"})
                   \cup (IF r.io THEN {"io_extract"} ELSE {}))
        /\ Goto(t, IF r.ok THEN "repack" ELSE AfterExtractError(src[t]))
    /\ UNCHANGED <<src, ret, tally, runs, listing, dest, quarantine>>
    /\ UNCHANGED <<mainVars, lockVars, planVars, counter>>

\* Lines 172-177: is_valid_zip, then the extraction as a ZIP.
FallbackProbeMut(s) == FALSE
FallbackProbe(s) == is_valid_zip(s)

Fallback(t) ==
    /\ pc[t] = "fallback"
    /\ IF FallbackProbe(src[t])
       THEN \E faultAt \in 0..Len(src[t].entries) :
               LET r == Attempt(t, "zip", faultAt) IN
               /\ faultAt # 0 => r.io
               /\ scratch' = [scratch EXCEPT ![TempOf(t)] = r.d]
               /\ Note(t, {"x2_probe"} \cup (IF r.ok THEN {"x2_ok"} ELSE {"x2_fail"})
                          \cup (IF r.io THEN {"io_extract"} ELSE {}))
               /\ Goto(t, IF r.ok THEN "repack" ELSE "q_inner")
       ELSE /\ Note(t, {"x2_probe", "x2_fail"})
            /\ Goto(t, "q_inner")
            /\ UNCHANGED scratch
    /\ UNCHANGED <<src, ret, tally, runs, listing, dest, quarantine>>
    /\ UNCHANGED <<mainVars, lockVars, planVars, counter>>

\* Lines 180-185 and 192-197: copy, remove the temp directory, count failed.
QInner(t) ==
    /\ pc[t] = "q_inner"
    /\ Copied(t)
    /\ Removed(t)
    /\ Count(t, "failed")
    /\ Return(t, "false")
    /\ Note(t, {"q_extract"})
    /\ Goto(t, "finally")
    /\ UNCHANGED <<runs, listing, dest>>
    /\ UNCHANGED <<mainVars, lockVars, planVars>>

QRaisesMut(t) ==
    /\ pc[t] \in {"q_inner", "q_repack"}
    /\ Note(t, {"io_copy"})
    /\ Count(t, "failed")
    /\ Goto(t, "q_outer")
    /\ UNCHANGED <<src, ret, runs, listing, scratch, dest, quarantine>>
    /\ UNCHANGED <<mainVars, lockVars, planVars>>

\* The copy of an inner handler raises: the outer handler (line 214) runs.
QRaises(t) ==
    /\ pc[t] \in {"q_inner", "q_repack"}
    /\ Note(t, {"io_copy"})
    /\ Goto(t, "q_outer")
    /\ UNCHANGED <<src, ret, tally, runs, listing, scratch, dest, quarantine>>
    /\ UNCHANGED <<mainVars, lockVars, planVars, counter>>

\* Line 201-202: ZipFile(dest_file, 'w') creates or truncates the
\* destination; rglob enumerates the temp directory (nothing, if it is gone).
RepackOpen(t) ==
    /\ pc[t] = "repack"
    /\ dest' = [dest EXCEPT ![DestOf(t)] =
                   [exists |-> TRUE, files |-> {}, writer |-> t, complete |-> FALSE]]
    /\ listing' = [listing EXCEPT ![t] = {f.path : f \in scratch[TempOf(t)].files}]
    /\ Goto(t, "repack_write")
    /\ UNCHANGED <<src, ret, hist, tally, runs, scratch, quarantine>>
    /\ UNCHANGED <<mainVars, lockVars, planVars, counter>>

\* The enumerated files as they are in the temp directory now.
Readable(t) == {f \in scratch[TempOf(t)].files : f.path \in listing[t]}
Vanished(t) == \E p \in listing[t] : \A f \in scratch[TempOf(t)].files : f.path # p

\* Lines 203-207: every enumerated file is written, the archive is closed,
\* converted is counted.
RepackWrite(t) ==
    /\ pc[t] = "repack_write"
    /\ ~Vanished(t)
    /\ dest' = [dest EXCEPT ![DestOf(t)] =
                   [exists |-> TRUE, files |-> Readable(t), writer |-> t,
                    complete |-> TRUE]]
    /\ Count(t, "converted")
    /\ Return(t, "true")
    /\ Note(t, {"repack_ok"})
    /\ Goto(t, "finally")
    /\ UNCHANGED <<src, runs, listing, scratch, quarantine>>
    /\ UNCHANGED <<mainVars, lockVars, planVars>>

\* new_zip.write raises: an I/O error, or an enumerated file that another
\* task's rmtree has removed since. The archive keeps what was written.
RepackRaises(t) ==
    /\ pc[t] = "repack_write"
    /\ \E io \in BOOLEAN :
        /\ io \/ Vanished(t)
        /\ ~io => Vanished(t)
        /\ dest' = [dest EXCEPT ![DestOf(t)] =
                       [exists |-> TRUE,
                        files |-> IF io THEN {} ELSE Readable(t),
                        writer |-> t, complete |-> FALSE]]
        /\ Note(t, {"repack_fail"} \cup (IF io THEN {"io_repack"} ELSE {"raced"}))
    /\ Goto(t, "q_repack")
    /\ UNCHANGED <<src, ret, tally, runs, listing, scratch, quarantine>>
    /\ UNCHANGED <<mainVars, lockVars, planVars, counter>>

\* Lines 208-213 (after a repack error) and 214-219 (the outer handler):
\* copy, count failed, return False.
QLate(t) ==
    /\ pc[t] \in {"q_repack", "q_outer"}
    /\ Copied(t)
    /\ Count(t, "failed")
    /\ Return(t, "false")
    /\ Note(t, {IF pc[t] = "q_repack" THEN "q_repack" ELSE "q_outer"})
    /\ Goto(t, "finally")
    /\ UNCHANGED <<runs, listing, scratch, dest>>
    /\ UNCHANGED <<mainVars, lockVars, planVars>>

\* The copy of the outer handler raises too: the exception leaves
\* convert_to_cbz (after the finally clause) and process_file.
QOuterRaises(t) ==
    /\ pc[t] = "q_outer"
    /\ Return(t, "exc")
    /\ Note(t, {"q_outer"})
    /\ Goto(t, "finally")
    /\ UNCHANGED <<src, tally, runs, listing, scratch, dest, quarantine>>
    /\ UNCHANGED <<mainVars, lockVars, planVars, counter>>

\* Lines 220-223.
Finally(t) ==
    /\ pc[t] = "finally"
    /\ Removed(t)
    /\ Goto(t, "done")
    /\ UNCHANGED <<src, ret, hist, tally, runs, listing, dest, quarantine>>
    /\ UNCHANGED <<mainVars, lockVars, planVars, counter>>

TaskStep(t) ==
    \/ Start(t) \/ Validate(t) \/ PfQuarantine(t) \/ PfQuarantineRaises(t)
    \/ Mkdir(t) \/ Extract(t) \/ Fallback(t) \/ QInner(t) \/ QRaises(t)
    \/ RepackOpen(t) \/ RepackWrite(t) \/ RepackRaises(t) \/ QLate(t)
    \/ QOuterRaises(t) \/ Finally(t)

\* ------------------------------------------------- process_files: the pool
\* The result loop after future.result(): an exception is caught and logged.
AfterResultMut(r) == IF r = "exc" THEN "crashed" ELSE "collect"
AfterResult(r) == "collect"

\* as_completed yields a future once its task has finished.
Collect(t) ==
    /\ mainpc = "collect"
    /\ pc[t] = "done"
    /\ t \notin collected
    /\ collected' = collected \cup {t}
    /\ mainpc' = AfterResult(ret[t])
    /\ UNCHANGED <<taskVars, lockVars, planVars, counter, summary>>

\* The loop ends when every future was yielded, and the with block when
\* every worker has finished (shutdown(wait=True)).
JoinedMut == collected # {}
Joined == collected = Tasks /\ \A t \in Tasks : pc[t] = "done"

\* Lines 277-279: the summary reads the counters; process_files returns.
Summary ==
    /\ mainpc = "collect"
    /\ Joined
    /\ summary' = counter
    /\ mainpc' = "returned"
    /\ UNCHANGED <<taskVars, lockVars, planVars, counter, collected>>

MainStep == Summary \/ \E t \in Tasks : Collect(t)

Next == MainStep \/ \E t \in Tasks : TaskStep(t)

Spec == Init /\ [][Next]_vars

\* Workers and the main thread are threads of the host: each keeps running
\* while it has a step to take.
FairSpec == Spec /\ WF_vars(MainStep) /\ \A t \in Tasks : WF_vars(TaskStep(t))

\* A batch into an output tree in which an earlier, interrupted run has left
\* its temp directories behind, each with a file in it.
Stale == [exists |-> TRUE, files |-> {[path |-> <<(<<"old">>)>>, data |-> <<0, 1>>]}]

ResumeInit ==
    /\ src \in [Tasks -> Sources]
    /\ Planned(src)
    /\ pc = [t \in Tasks |-> "queued"]
    /\ ret = [t \in Tasks |-> "none"]
    /\ hist = [t \in Tasks |-> {}]
    /\ tally = [t \in Tasks |-> Zero]
    /\ runs = [t \in Tasks |-> 0]
    /\ listing = [t \in Tasks |-> {}]
    /\ counter = Zero
    /\ scratch = [d \in TempDirs |-> Stale]
    /\ dest = [d \in DestFiles |-> NoArchive]
    /\ quarantine = [p \in FailedPaths |-> NoCopy]
    /\ mainpc = "collect"
    /\ collected = {}
    /\ summary = NoSummary
    /\ LockInit
    /\ tleft = [w \in Threads |-> 0]
    /\ PlanOver

ResumeSpec == ResumeInit /\ [][Next]_vars

\* A valid ZIP per task, its entries any of the names, at the point where
\* convert_to_cbz is about to extract it.
EncodedNames == {Page(1), Mojibake, Accented, Cjk, DotDot}
EncodedContents == UNION {[1..n -> EncodedNames] : n \in 1..MaxEntries}

ExtractInit ==
    /\ src \in [Tasks -> [stem : Stems, ext : {".cbz"}, payload : {"zip"},
                          entries : EncodedContents]]
    /\ \A t \in Tasks : src[t].stem = StemNames[t]
    /\ pc = [t \in Tasks |-> "extract"]
    /\ ret = [t \in Tasks |-> "none"]
    /\ hist = [t \in Tasks |-> {"probe_zip"}]
    /\ tally = [t \in Tasks |-> increment(Zero, "processed")]
    /\ runs = [t \in Tasks |-> 1]
    /\ listing = [t \in Tasks |-> {}]
    /\ counter = [Zero EXCEPT !["processed"] = NumTasks]
    /\ scratch = [d \in TempDirs |->
                    IF \E t \in Tasks : d = temp_dir(dest_file(src[t]))
                    THEN [exists |-> TRUE, files |-> {}] ELSE NoDir]
    /\ dest = [d \in DestFiles |-> NoArchive]
    /\ quarantine = [p \in FailedPaths |-> NoCopy]
    /\ mainpc = "collect"
    /\ collected = {}
    /\ summary = NoSummary
    /\ LockInit
    /\ tleft = [w \in Threads |-> 0]
    /\ PlanOver

ExtractNext == \E t \in Tasks : Extract(t)

ExtractSpec == ExtractInit /\ [][ExtractNext]_vars

\* ------------------------------------------ Counter.increment, step by step
\* Threads call increment concurrently; `self.processed += 1` is a load, an
\* add and a store, all inside `with self.lock`.
CallKinds == Kinds \cup {"other"}

CounterInit ==
    /\ src = [t \in Tasks |-> [stem |-> StemNames[t], ext |-> ".cbz",
                               payload |-> "junk", entries |-> <<>>]]
    /\ pc = [t \in Tasks |-> "queued"]
    /\ ret = [t \in Tasks |-> "none"]
    /\ hist = [t \in Tasks |-> {}]
    /\ tally = [t \in Tasks |-> Zero]
    /\ runs = [t \in Tasks |-> 0]
    /\ listing = [t \in Tasks |-> {}]
    /\ counter = Zero
    /\ scratch = [d \in TempDirs |-> NoDir]
    /\ dest = [d \in DestFiles |-> NoArchive]
    /\ quarantine = [p \in FailedPaths |-> NoCopy]
    /\ mainpc = "collect"
    /\ collected = {}
    /\ summary = NoSummary
    /\ LockInit
    /\ tleft = [w \in Threads |-> MaxCalls]
    /\ PlanOver

Call(w, k) ==
    /\ tpc[w] = "idle"
    /\ tleft[w] > 0
    /\ tleft' = [tleft EXCEPT ![w] = @ - 1]
    /\ tkind' = [tkind EXCEPT ![w] = k]
    /\ tpc' = [tpc EXCEPT ![w] = "enter"]
    /\ UNCHANGED <<taskVars, mainVars, planVars, counter, lock, treg, calls>>

\* with self.lock: the thread waits until the lock is free.
LockFreeMut(l) == TRUE
LockFree(l) == l = 0

Acquire(w) ==
    /\ tpc[w] = "enter"
    /\ LockFree(lock)
    /\ lock' = w
    /\ tpc' = [tpc EXCEPT ![w] = IF tkind[w] \in Kinds THEN "load" ELSE "release"]
    /\ UNCHANGED <<taskVars, mainVars, planVars, counter, tkind, treg, tleft, calls>>

Load(w) ==
    /\ tpc[w] = "load"
    /\ treg' = [treg EXCEPT ![w] = counter[tkind[w]]]
    /\ tpc' = [tpc EXCEPT ![w] = "store"]
    /\ UNCHANGED <<taskVars, mainVars, planVars, counter, lock, tkind, tleft, calls>>

Store(w) ==
    /\ tpc[w] = "store"
    /\ counter' = increment([counter EXCEPT ![tkind[w]] = treg[w]], tkind[w])
    /\ treg' = [treg EXCEPT ![w] = 0]
    /\ tpc' = [tpc EXCEPT ![w] = "release"]
    /\ UNCHANGED <<taskVars, mainVars, planVars, lock, tkind, tleft, calls>>

\* Leaving the with block releases the lock; the call returns and its
\* frame (counter_type, the loaded value) is gone.
Release(w) ==
    /\ tpc[w] = "release"
    /\ lock' = 0
    /\ calls' = [calls EXCEPT ![tkind[w]] = @ + 1]
    /\ tkind' = [tkind EXCEPT ![w] = "processed"]
    /\ tpc' = [tpc EXCEPT ![w] = "idle"]
    /\ UNCHANGED <<taskVars, mainVars, planVars, counter, treg, tleft>>

CounterNext ==
    \E w \in Threads :
        \/ \E k \in CallKinds : Call(w, k)
        \/ Acquire(w) \/ Load(w) \/ Store(w) \/ Release(w)

CounterSpec == CounterInit /\ [][CounterNext]_vars

\* ---------------------------------------------- process_files: the planning
\* Lines 249-262. The input tree is a set of entries, each under a relative
\* parent directory, with a stem, a suffix and a type. Directories that only
\* lead to an entry carry no suffix and are passed over by the filter.
MaxTree == 2

InRoot == <<"in">>
Parents == {<<>>, <<(<<"a">>)>>}
Suffixes == {".cbz", ".CBR", ".txt"}
Types == {"file", "dir"}
TreeEntries == [parent : Parents, stem : {"1", "2"}, suffix : Suffixes, type : Types]

\* str.lower() on the suffixes of the tree.
Lower(x) == CASE x = ".CBR" -> ".cbr"
              [] x = ".CBZ" -> ".cbz"
              [] OTHER -> x

\* src_file.relative_to(input_dir)
rel_path(e) == Append(e.parent, <<e.stem, e.suffix>>)
\* output_dir / rel_path.parent
dest_path(e) == <<OutRoot>> \o e.parent

\* A tree holds at most one entry at a path.
Trees == {tr \in {{s[i] : i \in 1..MaxTree} : s \in [1..MaxTree -> TreeEntries]} \cup {{}} :
            \A e, f \in tr : rel_path(e) = rel_path(f) => e = f}

\* input_dir.rglob('*'): every entry below a directory; nothing at all when
\* the root is missing or is not a directory (the scan error is swallowed).
rglob(root, tr) == IF root = "dir" THEN tr ELSE {}

PlanInit ==
    /\ input_dir \in {"dir", "file", "missing"}
    /\ tree \in Trees
    /\ input_dir # "dir" => tree = {}
    /\ unvisited = rglob(input_dir, tree)
    /\ files_to_process = <<>>
    /\ made_dirs = {}
    /\ planpc = "walk"
    /\ src = [t \in Tasks |-> [stem |-> StemNames[t], ext |-> ".cbz",
                               payload |-> "junk", entries |-> <<>>]]
    /\ pc = [t \in Tasks |-> "queued"]
    /\ ret = [t \in Tasks |-> "none"]
    /\ hist = [t \in Tasks |-> {}]
    /\ tally = [t \in Tasks |-> Zero]
    /\ runs = [t \in Tasks |-> 0]
    /\ listing = [t \in Tasks |-> {}]
    /\ counter = Zero
    /\ scratch = [d \in TempDirs |-> NoDir]
    /\ dest = [d \in DestFiles |-> NoArchive]
    /\ quarantine = [p \in FailedPaths |-> NoCopy]
    /\ mainpc = "collect"
    /\ collected = {}
    /\ summary = NoSummary
    /\ LockInit
    /\ tleft = [w \in Threads |-> 0]

\* Line 256: the filter looks at the suffix only.
Recognised(e) == Lower(e.suffix) \in {".cbz", ".cbr"}

\* Lines 257-262: the triple appended for a recognised entry.
PlanTriple(e) ==
    [src_file |-> <<InRoot>> \o rel_path(e),
     dest_file |-> Append(dest_path(e), <<e.stem, ".cbz">>),
     failed_path |-> FailedDir \o rel_path(e)]

\* One turn of the loop of line 255, in the order rglob yields.
Walk(e) ==
    /\ planpc = "walk"
    /\ e \in unvisited
    /\ unvisited' = unvisited \ {e}
    /\ IF Recognised(e)
       THEN /\ made_dirs' = made_dirs \cup {dest_path(e)}
            /\ files_to_process' = Append(files_to_process, PlanTriple(e))
       ELSE UNCHANGED <<made_dirs, files_to_process>>
    /\ UNCHANGED <<taskVars, mainVars, lockVars, counter, input_dir, tree, planpc>>

\* Line 266: every planned triple is submitted to the executor.
Submit ==
    /\ planpc = "walk"
    /\ unvisited = {}
    /\ planpc' = "submitted"
    /\ UNCHANGED <<taskVars, mainVars, lockVars, counter, input_dir, tree,
                   unvisited, files_to_process, made_dirs>>

\* Lines 269-279 for an empty plan: as_completed has nothing to yield, the
\* summary is logged and process_files returns.
EmptyBatch ==
    /\ planpc = "submitted"
    /\ files_to_process = <<>>
    /\ mainpc = "collect"
    /\ summary' = counter
    /\ mainpc' = "returned"
    /\ planpc' = "returned"
    /\ UNCHANGED <<taskVars, lockVars, counter, collected, input_dir, tree,
                   unvisited, files_to_process, made_dirs>>

\* Lines 265-275 for a plan with files: the workers take over.
Dispatch ==
    /\ planpc = "submitted"
    /\ files_to_process # <<>>
    /\ planpc' = "dispatched"
    /\ UNCHANGED <<taskVars, mainVars, lockVars, counter, input_dir, tree,
                   unvisited, files_to_process, made_dirs>>

PlanNext == (\E e \in TreeEntries : Walk(e)) \/ Submit \/ EmptyBatch \/ Dispatch

PlanSpec == PlanInit /\ [][PlanNext]_vars

\* ================================================================ properties
Entries(t) == src[t].entries
Quarantined(t) ==
    /\ quarantine[FailedOf(t)].exists
    /\ quarantine[FailedOf(t)].bytes = Bytes(src[t])
Faults == {"io_extract", "io_repack", "io_copy"}

\* C1: when process_files has returned, every task has incremented
\* `processed` exactly once and exactly one of `converted` / `failed` once,
\* so converted + failed = processed = the number of planned tasks - on
\* every exit path, a failing quarantine copy included.
C1_CounterInvariant ==
    mainpc = "returned" =>
        /\ \A t \in Tasks :
            /\ tally[t]["processed"] = 1
            /\ tally[t]["converted"] + tally[t]["failed"] = 1
        /\ counter["converted"] + counter["failed"] = counter["processed"]
        /\ counter["processed"] = NumTasks

\* C2: when the batch has completed, every entry of every task's source is
\* in the archive at the task's destination (the task counted converted) or
\* the source is byte-identical at the task's quarantine path (otherwise).
\* Stated for batches in which no I/O error occurs: tasks running
\* concurrently are enough to lose content.
C2_RoundTrip ==
    (mainpc = "returned" /\ \A t \in Tasks : hist[t] \cap Faults = {}) =>
        \A t \in Tasks :
            IF tally[t]["converted"] = 1
            THEN /\ dest[DestOf(t)].exists
                 /\ \A i \in 1..Len(Entries(t)) :
                        \E f \in dest[DestOf(t)].files : f.data = <<t, i>>
            ELSE Quarantined(t)

\* An entry of task t whose stored name, joined to the temp directory and
\* resolved, lies outside the temp directory.
Escapes(t) ==
    \E i \in 1..Len(Entries(t)) :
        ~IsPrefix(TempOf(t), Resolved(TempOf(t), Entries(t)[i]))

\* C3: a task whose archive holds an entry that resolves outside the temp
\* directory is never counted converted, and ends quarantined and counted
\* failed. Stated for tasks in which no I/O error occurs.
C3_TraversalRejected ==
    \A t \in Tasks :
        (Escapes(t) /\ hist[t] \cap Faults = {}) =>
            /\ tally[t]["converted"] = 0
            /\ pc[t] = "done" => Quarantined(t) /\ tally[t]["failed"] = 1

\* C4: once a task's execution has returned, on any exit path, its temp
\* directory (destination path + "_temp") does not exist.
C4_Cleanup ==
    \A t \in Tasks : pc[t] = "done" => ~scratch[TempOf(t)].exists

\* The task is between the creation and the final removal of its temp
\* directory.
UsingTemp(t) == pc[t] \notin {"queued", "validate", "pf_quarantine", "mkdir", "done"}

\* C5: no two distinct tasks use the same temp directory path.
C5_ScratchUnshared ==
    \A t, u \in Tasks :
        (t # u /\ UsingTemp(t) /\ UsingTemp(u)) => TempOf(t) # TempOf(u)

Converted(t) ==
    /\ ret[t] = "true"
    /\ tally[t]["converted"] = 1
    /\ tally[t]["failed"] = 0
    /\ dest[DestOf(t)].exists
    /\ ~quarantine[FailedOf(t)].exists

\* No I/O error was injected into the task and no other task shares its
\* destination.
Undisturbed(t) ==
    /\ hist[t] \cap Faults = {}
    /\ \A u \in Tasks : u # t => DestOf(u) # DestOf(t)

\* C6: a finished .cbr task whose source is no RAR ends converted (counted
\* converted, destination written, nothing in quarantine) whenever its ZIP
\* extraction and its repack succeeded; and they do succeed when the
\* source is a valid ZIP whose entries pass the containment test, no I/O
\* error occurs and no other task shares the destination.
C6_FormatRecovery ==
    \A t \in Tasks :
        (pc[t] = "done" /\ src[t].ext = ".cbr" /\ ~is_valid_rar(src[t])) =>
            /\ {"x2_ok", "repack_ok"} \subseteq hist[t] => Converted(t)
            /\ ( /\ is_valid_zip(src[t])
                 /\ \A i \in 1..Len(Entries(t)) : WithinTemp(TempOf(t), Entries(t)[i])
                 /\ Undisturbed(t) )
               => Converted(t) /\ dest[DestOf(t)].complete

C6_Witness ==
    \E t \in Tasks :
        /\ pc[t] = "done" /\ src[t].ext = ".cbr" /\ src[t].payload = "zip"
        /\ {"probe_rar", "probe_zip", "x1_fail", "x2_ok", "repack_ok"} \subseteq hist[t]
        /\ Converted(t)

PastValidation(t) == pc[t] \notin {"queued", "validate"}
QuarantinedAtValidation(t) == pc[t] = "pf_quarantine" \/ "q_validation" \in hist[t]
Alternate(s) == IF Declared(s) = "rar" THEN "zip" ELSE "rar"
ProbeEvent(fmt) == IF fmt = "zip" THEN "probe_zip" ELSE "probe_rar"

C8_BatchReturns ==
    /\ [](mainpc \in {"collect", "returned"})
    /\ <>(mainpc = "returned" /\ \A t \in Tasks : pc[t] = "done" /\ runs[t] = 1)

C8_Witness ==
    /\ mainpc = "returned"
    /\ \E t, u \in Tasks : ret[t] = "exc" /\ ret[u] = "true" /\ pc[u] = "done"

\* C9: no task is started twice, and once the summary has read the
\* counters every task has run exactly once and has finished, and the
\* counters are as the summary read them.
C9_JoinBeforeSummary ==
    /\ \A t \in Tasks : runs[t] <= 1
    /\ summary # NoSummary =>
        /\ \A t \in Tasks : pc[t] = "done" /\ runs[t] = 1
        /\ counter = summary

C9_Witness ==
    /\ summary # NoSummary
    /\ summary["processed"] = NumTasks
    /\ summary["converted"] >= 1 /\ summary["failed"] >= 1

\* C10: a thread is between the load and the release only while it holds
\* the lock, and every counter equals the number of completed calls of
\* increment for it plus the calls that have stored and not yet returned:
\* no increment is lost and no call changes another counter.
C10_NoLostIncrement ==
    /\ \A w \in Threads : tpc[w] \in {"load", "store", "release"} => lock = w
    /\ \A k \in Kinds :
        counter[k] = calls[k]
                     + Cardinality({w \in Threads : tpc[w] = "release" /\ tkind[w] = k})

C10_Witness ==
    \E w, v \in Threads :
        /\ w # v /\ tkind[w] = "processed" /\ tkind[v] = "processed"
        /\ tpc[w] = "enter" /\ tpc[v] = "release"
        /\ counter["processed"] = 2 /\ calls["processed"] = 1

\* C11: when the input root is missing or is not a directory, planning does
\* not complete: nothing is submitted and no summary is logged.
C11_PlanningError ==
    input_dir # "dir" => planpc = "walk" /\ summary = NoSummary

\* C12: once planning is over, the plan holds exactly one triple for every
\* regular file with a suffix that is .cbz or .cbr in any case, and no other
\* triple: the destination is the output root, the relative parent and the
\* stem with ".cbz", the quarantine path is "_failed" under the output root
\* and the relative path as it is, and the destination's parent was created.
C12_PlanExact ==
    planpc # "walk" =>
        LET wanted == {e \in tree : e.type = "file"
                                    /\ Lower(e.suffix) \in {".cbz", ".cbr"}}
            expected(e) ==
                [src_file |-> <<InRoot>> \o e.parent \o <<(<<e.stem, e.suffix>>)>>,
                 dest_file |-> <<OutRoot>> \o e.parent \o <<(<<e.stem, ".cbz">>)>>,
                 failed_path |-> <<OutRoot, <<"_failed">>>> \o e.parent
                                    \o <<(<<e.stem, e.suffix>>)>>]
        IN  /\ Len(files_to_process) = Cardinality(wanted)
            /\ {files_to_process[i] : i \in DOMAIN files_to_process}
                  = {expected(e) : e \in wanted}
            /\ \A e \in wanted : <<OutRoot>> \o e.parent \in made_dirs

InQuarantineHandler(t) == pc[t] \in {"q_inner", "q_outer", "finally", "done"}

\* C13: the fallback (probe as a ZIP, extract again) is entered only by a
\* .cbr source after its first extraction failed, and only once; a .cbz
\* source whose extraction failed, and a .cbr source whose fallback probe or
\* fallback extraction failed, go to the quarantine handler with no further
\* extraction or repack, and end quarantined and counted failed unless the
\* quarantine copy itself raises.
C13_SingleFallback ==
    \A t \in Tasks :
        /\ (pc[t] = "fallback" \/ "x2_probe" \in hist[t])
              => src[t].ext = ".cbr" /\ "x1_fail" \in hist[t]
        /\ pc[t] = "fallback" => "x2_probe" \notin hist[t]
        /\ "x2_ok" \in hist[t] => "x2_fail" \notin hist[t]
        /\ (src[t].ext = ".cbz" /\ "x1_fail" \in hist[t])
           \/ "x2_fail" \in hist[t]
              => /\ InQuarantineHandler(t)
                 /\ hist[t] \cap {"x1_ok", "x2_ok", "repack_ok", "repack_fail"} = {}
                 /\ ~dest[DestOf(t)].exists \/ dest[DestOf(t)].writer # t
                 /\ pc[t] = "done" /\ "io_copy" \notin hist[t]
                       => Quarantined(t) /\ tally[t].failed = 1

C13_Witness ==
    \E t, u \in Tasks :
        /\ src[t].ext = ".cbr" /\ pc[t] = "done"
        /\ {"x1_fail", "x2_probe", "x2_fail"} \subseteq hist[t]
        /\ Quarantined(t)
        /\ src[u].ext = ".cbz" /\ pc[u] = "done"
        /\ "x1_fail" \in hist[u] /\ Quarantined(u)

InConvert(t) ==
    \/ pc[t] \in {"mkdir", "extract", "fallback", "q_inner", "q_outer",
                  "repack", "repack_write", "q_repack"}
    \/ hist[t] \cap {"x1_ok", "x1_fail", "repack_ok", "repack_fail"} # {}
Repacking(t) ==
    \/ pc[t] \in {"repack", "repack_write", "q_repack"}
    \/ hist[t] \cap {"repack_ok", "repack_fail"} # {}
ExtractedClean(t) ==
    /\ \/ "x1_ok" \in hist[t] /\ "x1_fail" \notin hist[t]
       \/ "x2_ok" \in hist[t] /\ "x2_fail" \notin hist[t]
    /\ "io_extract" \notin hist[t]
    /\ \A i \in 1..Len(src[t].entries) : WithinTemp(TempOf(t), src[t].entries[i])

\* C14: a task is counted processed before anything else; it is in
\* convert_to_cbz only after its validation succeeded under some format; it
\* is repacking, or past it, only after an extraction attempt (the first, or
\* the fallback after a failed first) went through every entry without an
\* error; and it is counted converted only after the repack ended without
\* an error.
C14_Order ==
    \A t \in Tasks :
        /\ pc[t] # "queued" => tally[t].processed = 1
        /\ pc[t] = "queued" => hist[t] = {} /\ tally[t] = Zero
        /\ InConvert(t) => Validated(src[t])
        /\ Repacking(t) => InConvert(t) /\ ExtractedClean(t)
        /\ tally[t].converted > 0 \/ ret[t] = "true"
              => /\ Repacking(t)
                 /\ "repack_ok" \in hist[t]
                 /\ "repack_fail" \notin hist[t]

C14_Witness ==
    \E t, u \in Tasks :
        /\ pc[t] = "done" /\ tally[t].converted = 1 /\ "x2_ok" \in hist[t]
        /\ pc[u] = "done" /\ "io_extract" \in hist[u] /\ tally[u].failed = 1
        /\ Len(src[u].entries) = MaxEntries

\* C17: a finished task that is not counted converted has left no file of its
\* own writing at its destination path, and a destination archive exists
\* only when a task with that destination is counted converted.
C17_AtomicRepack ==
    /\ \A t \in Tasks :
          pc[t] = "done" /\ tally[t].converted = 0
             => ~(dest[DestOf(t)].exists /\ dest[DestOf(t)].writer = t)
    /\ \A t \in Tasks :
          (\A u \in Tasks : DestOf(u) = DestOf(t) => pc[u] = "done")
          /\ dest[DestOf(t)].exists
             => \E u \in Tasks : DestOf(u) = DestOf(t) /\ tally[u].converted = 1

RECURSIVE TallySum(_, _)
TallySum(k, n) == IF n = 0 THEN 0 ELSE tally[n][k] + TallySum(k, n - 1)

\* C18: in every state each task has counted processed at most once and
\* converted and failed together at most once and only after processed,
\* the counters are the sums of what the tasks counted, and
\* converted + failed <= processed; no step decreases a counter.
C18_CountersOrdered ==
    /\ [](/\ \A t \in Tasks :
                /\ tally[t].processed <= 1
                /\ tally[t].converted + tally[t].failed <= tally[t].processed
                /\ \A k \in Kinds : tally[t][k] >= 0
          /\ \A k \in Kinds : counter[k] = TallySum(k, NumTasks)
          /\ counter.converted + counter.failed <= counter.processed)
    /\ [][\A k \in Kinds : counter'[k] >= counter[k]]_vars

C18_Witness ==
    \E t, u \in Tasks :
        /\ \A v \in Tasks : pc[v] = "done"
        /\ tally[t].converted = 1
        /\ tally[u].failed = 1 /\ "io_copy" \in hist[u]
        /\ counter.processed = NumTasks

OwnFiles(t) == {<<t, i>> : i \in 1..Len(src[t].entries)}

\* C16: when a task is about to repack, the files in its temp directory are
\* exactly the files its own extraction wrote, one for each entry of its
\* source; and a completed destination archive holds entries of the source
\* of the task that wrote it only.
C16_FreshScratch ==
    \A t \in Tasks :
        /\ pc[t] = "repack"
              => {f.data : f \in scratch[TempOf(t)].files} = OwnFiles(t)
        /\ dest[DestOf(t)].complete /\ dest[DestOf(t)].writer = t
              => {f.data : f \in dest[DestOf(t)].files} \subseteq OwnFiles(t)

Ordinary(name) == ~name.abs /\ \A i \in DOMAIN name.parts : name.parts[i] # <<"..">>

\* C15: every file that safe_extract has written for an entry with an
\* ordinary stored name (relative, no `..` component) is at the path that was
\* checked for containment: the temp directory joined with the repaired name.
C15_WrittenWhereChecked ==
    \A t \in Tasks :
        \A f \in scratch[TempOf(t)].files :
            f.data[1] = t /\ Ordinary(src[t].entries[f.data[2]])
               => TempOf(t) \o f.path
                     = JoinPath(TempOf(t), filename(src[t].entries[f.data[2]]))

============================================================================
